---- MODULE Spec2Model ----
(***************************************************************************)
(* A model of package fastrand (src/fastrand.go, src/fastrand_safe.go and  *)
(* the default-build file src/unnamed/part_000).                           *)
(*                                                                         *)
(* Machine words are scaled: a uint32 has Bits32 bits (32 in the source)   *)
(* and a uint64 twice as many, so that every word of a width can be        *)
(* enumerated.                                                             *)
(* All arithmetic keeps its width (wrap-around on unsigned subtraction,    *)
(* the sign bit dropped by >> 1, float significands rounded to their       *)
(* precision).                                                             *)
(***************************************************************************)
EXTENDS Integers, Sequences, FiniteSets, TLC

VARIABLES
    safe,       \* build tag `safe` (fastrand_safe.go) or the default build
    bigEndian,  \* byte order of the target the package is built for
    op,         \* the operation called last ("none" before the first call)
    pc,         \* "idle" | "loop" (inside a redraw loop) | "done" | "panic"
    n,          \* the bound n of the (last) sampler call, the length of the
                \* buffer of Fill / Read, the value v of Jitter
    raw,        \* <<w>>: the word drawn last in this call, <<>> when none was
    draws,      \* the number of words drawn from the word source in this call
    ret,        \* what the call returned, <<>> while there is nothing: <<v>>,
                \* a float as <<numerator, denominator>>, Read's <<count, error>>
    s,          \* Shuffle: the slice being permuted
    i,          \* Shuffle: the loop index
    js,         \* Shuffle: the indices j drawn so far, in order
    buf,        \* Fill / Read: the caller's buffer
    words,      \* Fill / Read: the words drawn, in order, as <<width, value>>
    reads,      \* the number of Read calls made on the Reader() value
    factor      \* Jitter: the factor as a fraction <<numerator, denominator>>

vars == <<safe, bigEndian, op, pc, n, raw, draws, ret, s, i, js, buf, words,
          reads, factor>>

----------------------------------------------------------------------------
(* Bounds of the model *)

\* bits of a uint32 (32 in the source)
Bits32 == 4
\* how far from either end of a 64-bit range the bounds n are taken
NSpan == 5
\* words one bounded-sampling call may draw; one less is the number of
\* rejected draws one Shuffle call may meet
MaxDraws == 2
\* the longest slice shuffled
MaxLen == 7
\* the longest buffer filled
MaxBufLen == 20
\* Read calls made on the Reader() value
MaxReads == 2

----------------------------------------------------------------------------
(* Word widths and the constants of fastrand.go:17-22 *)

Bits64 == 2 * Bits32

maxUint32 == 2^Bits32 - 1
maxUint64 == 2^Bits64 - 1
maxInt32 == maxUint32 \div 2
maxInt64 == maxUint64 \div 2
minInt32 == 0 - maxInt32 - 1
minInt64 == 0 - maxInt64 - 1

RECURSIVE And(_, _)
\* a & b on non-negative integers
And(a, b) ==
    IF a = 0 \/ b = 0 THEN 0
    ELSE (a % 2) * (b % 2) + 2 * And(a \div 2, b \div 2)

\* x >> k on a non-negative integer
Shr(x, k) == x \div 2^k

\* the value of an integer expression in an unsigned type of w bits
WrapClamp(x, w) == IF x < 0 THEN 0 ELSE x % 2^w
Wrap(x, w) == x % 2^w

\* u32() and u64(): the word source; any word of the width may come back
u32 == 0 .. maxUint32
u64 == 0 .. maxUint64

----------------------------------------------------------------------------
(* Bounded sampling, fastrand.go:42-120 *)

\* Int31 / Int63 applied to the word drawn: the sign bit is shifted out
Int31(w) == Shr(w, 1)
Int63Unshifted(w) == w
Int63(w) == Shr(w, 1)

\* n&(n-1) == 0 in an unsigned type of w bits (n-1 wraps for n = 0); for the
\* signed samplers n > 0 here, so the same expression serves
IsPow2(nn, w) == And(nn, Wrap(nn - 1, w)) = 0

\* the mask applied on the power-of-two path
MaskByN(v, nn, w) == And(v, Wrap(nn, w))
Mask(v, nn, w) == And(v, Wrap(nn - 1, w))

\* max := MAXVAL - MAXVAL % n
RejMaxNone(maxval, nn) == maxval
RejMax(maxval, nn) == maxval - (maxval % nn)

\* One pass of a sampler over a drawn value v (already shifted for the signed
\* ones), given the outcome of the power-of-two test and max: <<r>> when the
\* pass returns r, <<>> when v is rejected and redrawn.
Pass(v, nn, pow2, max, w) ==
    IF pow2 THEN <<Mask(v, nn, w)>>
    ELSE IF v >= max THEN <<>>
    ELSE <<v % nn>>

Sample(v, nn, maxval, w) ==
    Pass(v, nn, IsPow2(nn, w), RejMax(maxval, nn), w)

Int31nPass(nn, w) == Sample(Int31(w), nn, maxInt32, Bits32)
Int63nPass(nn, w) == Sample(Int63(w), nn, maxInt64, Bits64)
Uint32nPass(nn, w) == Sample(w, nn, maxUint32, Bits32)
Uint64nPass(nn, w) == Sample(w, nn, maxUint64, Bits64)

\* the bounds tried: every value near either end of the range, and every
\* power of two
NearEnds(lo, hi) == {x \in lo .. hi : x <= lo + NSpan \/ x >= hi - NSpan}
Around0(lo, hi) == {x \in lo .. hi : x >= 0 - NSpan /\ x <= NSpan}
Pow2s(w) == {2^k : k \in 0 .. w - 1}

Int32s == minInt32 .. maxInt32
Uint32s == 0 .. maxUint32
Int64s == NearEnds(minInt64, maxInt64) \cup Around0(minInt64, maxInt64)
              \cup Pow2s(Bits64 - 1)
Uint64s == NearEnds(0, maxUint64) \cup Pow2s(Bits64)

\* a call starts when no other is in progress (each call is synchronous)
NoCall == pc = "idle"

OtherUnchanged == UNCHANGED <<safe, bigEndian, s, i, js, buf, words, reads, factor>>

\* the state after the pass over word w of a sampler call
Drawn(name, nn, w, r) ==
    /\ op' = name
    /\ n' = nn
    /\ raw' = <<w>>
    /\ draws' = IF op = name /\ pc = "loop" THEN draws + 1 ELSE 1
    /\ ret' = r
    /\ pc' = IF r = <<>> THEN "loop" ELSE "done"
    /\ OtherUnchanged

\* panic("fastrand.Int31n: invalid argument"): nothing drawn, nothing returned
Panicked(name, nn) ==
    /\ op' = name
    /\ n' = nn
    /\ raw' = <<>>
    /\ draws' = 0
    /\ ret' = <<>>
    /\ pc' = "panic"
    /\ OtherUnchanged

\* if n <= 0 { panic(...) }
InvalidBoundNegative(nn) == nn < 0
InvalidBound(nn) == nn <= 0

Looping(name) == pc = "loop" /\ op = name /\ draws < MaxDraws

Int31n ==
    /\ NoCall
    /\ \E nn \in Int32s :
          IF InvalidBound(nn) THEN Panicked("Int31n", nn)
          ELSE \E w \in u32 : Drawn("Int31n", nn, w, Int31nPass(nn, w))

Int31nLoop ==
    /\ Looping("Int31n")
    /\ \E w \in u32 : Drawn("Int31n", n, w, Int31nPass(n, w))

Int63n ==
    /\ NoCall
    /\ \E nn \in Int64s :
          IF InvalidBound(nn) THEN Panicked("Int63n", nn)
          ELSE \E w \in u64 : Drawn("Int63n", nn, w, Int63nPass(nn, w))

Int63nLoop ==
    /\ Looping("Int63n")
    /\ \E w \in u64 : Drawn("Int63n", n, w, Int63nPass(n, w))

Uint64nUint32n ==
    /\ NoCall
    /\ \E nn \in Uint32s, w \in u32 :
          Drawn("Uint32n", nn, w, Uint32nPass(nn, w))

Uint64nUint32nLoop ==
    /\ Looping("Uint32n")
    /\ \E w \in u32 : Drawn("Uint32n", n, w, Uint32nPass(n, w))

Uint64n ==
    /\ NoCall
    /\ \E nn \in Uint64s, w \in u64 :
          Drawn("Uint64n", nn, w, Uint64nPass(nn, w))

Uint64nLoop ==
    /\ Looping("Uint64n")
    /\ \E w \in u64 : Drawn("Uint64n", n, w, Uint64nPass(n, w))

----------------------------------------------------------------------------

\* the call has returned to its caller; the package keeps no state of it
Return ==
    /\ pc = "done"
    /\ op' = "none"
    /\ pc' = "idle"
    /\ n' = 0
    /\ raw' = <<>>
    /\ draws' = 0
    /\ ret' = <<>>
    /\ s' = <<>>
    /\ i' = 0
    /\ js' = <<>>
    /\ buf' = <<>>
    /\ words' = <<>>
    /\ factor' = <<0, 1>>
    /\ UNCHANGED <<safe, bigEndian, reads>>

Idle ==
    /\ op = "none"
    /\ pc = "idle"
    /\ n = 0
    /\ raw = <<>>
    /\ draws = 0
    /\ ret = <<>>
    /\ s = <<>>
    /\ i = 0
    /\ js = <<>>
    /\ buf = <<>>
    /\ words = <<>>
    /\ reads = 0
    /\ factor = <<0, 1>>

InitSample ==
    /\ safe = FALSE
    /\ bigEndian = FALSE
    /\ Idle

NextSample ==
    \/ Int31n
    \/ Int31nLoop
    \/ Int63n
    \/ Int63nLoop
    \/ Uint64nUint32n
    \/ Uint64nUint32nLoop
    \/ Uint64n
    \/ Uint64nLoop
    \/ Return

SpecSample == InitSample /\ [][NextSample]_vars

----------------------------------------------------------------------------
(* Shuffle, fastrand.go:139-154 *)

\* the value of integer x converted to a signed type of w bits
ToSigned(x, w) == ((x + 2^(w - 1)) % 2^w) - 2^(w - 1)

\* s[i], s[j] = s[j], s[i] (Go indexes from 0, a sequence from 1)
Swap(t, a, b) == [t EXCEPT ![a + 1] = t[b + 1], ![b + 1] = t[a + 1]]

\* the condition of the first loop: i >= maxInt32-1
InWide(k) == k >= maxInt32 - 1

\* the condition of the second loop: i > 0
InNarrowFromZero(k) == k >= 0
InNarrow(k) == k > 0

ShuffleRuns(k) == InWide(k) \/ InNarrow(k)

\* the bound the loop passes to its sampler: int64(i + 1) or int32(i + 1)
ShuffleBound(k) ==
    IF InWide(k) THEN ToSigned(k + 1, Bits64) ELSE ToSigned(k + 1, Bits32)

Shuffle ==
    /\ NoCall
    /\ \E len \in 0 .. MaxLen :
          /\ op' = "Shuffle"
          /\ s' = [k \in 1 .. len |-> k]
          /\ i' = len - 1
          /\ pc' = IF ShuffleRuns(len - 1) THEN "loop" ELSE "done"
    /\ js' = <<>>
    /\ draws' = 0
    /\ UNCHANGED <<safe, bigEndian, n, raw, ret, buf, words, reads, factor>>

\* one draw of the sampler call of the current iteration, and, when the draw
\* is accepted, the swap and the step to the next iteration
ShuffleStep ==
    /\ pc = "loop"
    /\ op = "Shuffle"
    /\ n' = ShuffleBound(i)
    /\ IF InvalidBound(ShuffleBound(i))
       THEN /\ pc' = "panic"
            /\ UNCHANGED <<s, i, js, draws>>
       ELSE \E w \in (IF InWide(i) THEN u64 ELSE u32) :
               LET j == IF InWide(i) THEN Int63nPass(ShuffleBound(i), w)
                        ELSE Int31nPass(ShuffleBound(i), w)
               IN  IF j = <<>>
                   THEN /\ draws - Len(js) < MaxDraws - 1
                        /\ draws' = draws + 1
                        /\ UNCHANGED <<s, i, js, pc>>
                   ELSE /\ draws' = draws + 1
                        /\ s' = Swap(s, i, j[1])
                        /\ js' = Append(js, j[1])
                        /\ i' = i - 1
                        /\ pc' = IF ShuffleRuns(i - 1) THEN "loop" ELSE "done"
    /\ UNCHANGED <<safe, bigEndian, op, raw, ret, buf, words, reads, factor>>

InitShuffle ==
    /\ safe = FALSE
    /\ bigEndian = FALSE
    /\ Idle

NextShuffle ==
    \/ Shuffle
    \/ ShuffleStep
    \/ Return

SpecShuffle == InitShuffle /\ [][NextShuffle]_vars

----------------------------------------------------------------------------
(* Properties of Shuffle, checked under SpecShuffle *)

RECURSIVE Factorial(_)
Factorial(k) == IF k <= 1 THEN 1 ELSE k * Factorial(k - 1)

Identity(len) == [k \in 1 .. len |-> k]

\* the draw sequences (j_{L-1}, ..., j_1) of a slice of length len: the k-th
\* draw belongs to index i = len - k and lies in [0, i]
RECURSIVE DrawSeqs(_, _)
DrawSeqs(len, k) ==
    IF k <= 0 THEN {<<>>}
    ELSE {Append(q, j) : q \in DrawSeqs(len, k - 1), j \in 0 .. (len - k)}

\* the arrangement Fisher-Yates makes of t with the draws q, from the k-th on
RECURSIVE Arrange(_, _, _)
Arrange(t, q, k) ==
    IF k > Len(q) THEN t
    ELSE Arrange(Swap(t, Len(t) - k, q[k]), q, k + 1)

\* the values the sampler of iteration k can return, over every word
Drawable(k) ==
    IF InWide(k)
    THEN {Int63nPass(ShuffleBound(k), w) : w \in u64} \ {<<>>}
    ELSE {Int31nPass(ShuffleBound(k), w) : w \in u32} \ {<<>>}

Shuffling == op = "Shuffle"

\* C5: Shuffle is a Fisher-Yates permutation. It never fails; the slice keeps
\* its length and its elements; i runs from L-1 down to 1, every bound passed
\* to a sampler is positive and fits the sampler's type and the sampler can
\* return exactly the indices of [0, i]; the result is the arrangement of the
\* draw sequence, and the draw sequences of length L-1 lead to L! different
\* arrangements (a bijection onto the permutations); for L <= 1 nothing is
\* drawn and nothing changes.
C5_FisherYates ==
    Shuffling =>
        LET len == Len(s) IN
        /\ pc # "panic"
        /\ {s[k] : k \in 1 .. len} = 1 .. len
        /\ Len(js) = len - 1 - i
        /\ \A k \in 1 .. Len(js) : js[k] \in 0 .. (len - k)
        /\ s = Arrange(Identity(len), js, 1)
        /\ pc = "loop" =>
              /\ i \in 1 .. len - 1
              /\ ShuffleBound(i) = i + 1
              /\ Drawable(i) = {<<j>> : j \in 0 .. i}
        /\ pc = "done" =>
              /\ i = (IF len = 0 THEN 0 - 1 ELSE 0)
              /\ draws >= Len(js)
        /\ js = <<>> =>
              Cardinality({Arrange(Identity(len), q, 1) :
                              q \in DrawSeqs(len, len - 1)})
                  = Factorial(len)
        /\ len <= 1 =>
              /\ pc = "done"
              /\ draws = 0
              /\ s = Identity(len)

\* C5 witness: a slice long enough for the wide sampler has been reversed
\* end to end, with one rejected draw on the way.
C5_Witness ==
    /\ Shuffling
    /\ pc = "done"
    /\ Len(s) = MaxLen
    /\ InWide(MaxLen - 1)
    /\ draws = Len(js) + 1
    /\ s = [k \in 1 .. MaxLen |-> MaxLen + 1 - k]

----------------------------------------------------------------------------
(* Fill and Reader, fastrand.go:156-189, with putU64 of either build *)

\* bytes of a uint64 (len(p) >= 8, p[8:]) and of a uint32 (len(p) > 4)
WordBytes == 8
HalfBytes == 4

\* bits of a byte, at the scale of the words
ByteBits == Bits64 \div WordBytes

\* byte(x)
Byte(x) == x % 2^ByteBits

\* what the caller's buffer holds before the call: no byte written yet
Unwritten == 0 - 1
Blank(len) == [k \in 1 .. len |-> Unwritten]

\* The entropy behind the draws of one call, one value for each draw: u64()
\* returns the value, u32() its high half (uint32(hash >> 32) in the safe
\* build; any uint32 in the default build).
Entropy == {0, maxUint64} \cup {2^k : k \in 0 .. Bits64 - 1}
MaxFillDraws == MaxBufLen \div WordBytes + 1
Sources == [1 .. MaxFillDraws -> Entropy]

Draw64(e) == e
Draw32(e) == Shr(e, Bits32)

\* putU64 of fastrand_safe.go: bytes 0..7 of p[off:] get v, v>>8, ..., v>>56.
\* (The source writes through b, a name the file does not declare; it is read
\* as the parameter p.)
PutU64Safe(b, off, v) ==
    [k \in 1 .. Len(b) |->
        IF k > off /\ k <= off + WordBytes
        THEN Byte(Shr(v, (k - off - 1) * ByteBits))
        ELSE b[k]]

\* putU64 of the default build: *(*uint64)(unsafe.Pointer(&p[0])) = v stores v
\* in the byte order of the target
PutU64Native(b, off, v, big) ==
    [k \in 1 .. Len(b) |->
        IF k > off /\ k <= off + WordBytes
        THEN IF big THEN Byte(Shr(v, (WordBytes - (k - off)) * ByteBits))
             ELSE Byte(Shr(v, (k - off - 1) * ByteBits))
        ELSE b[k]]

putU64(b, off, v, sf, big) ==
    IF sf THEN PutU64Safe(b, off, v) ELSE PutU64Native(b, off, v, big)

\* fill(p, v) on p = b[off:]: p[i] = byte(v >> (i * 8)) for every i of p
fill(b, off, v) ==
    [k \in 1 .. Len(b) |->
        IF k > off THEN Byte(Shr(v, (k - off - 1) * ByteBits)) ELSE b[k]]

\* Fill on p = b[off:], drawing from src after the draws already in ws:
\* the buffer and the words drawn, as [buf, words]
RECURSIVE FillFrom(_, _, _, _, _, _)
FillFrom(b, off, src, ws, sf, big) ==
    LET e == src[Len(ws) + 1]
        rest == Len(b) - off
    IN  IF rest >= WordBytes
        THEN FillFrom(putU64(b, off, Draw64(e), sf, big), off + WordBytes, src,
                      Append(ws, <<"u64", Draw64(e)>>), sf, big)
        ELSE IF rest > HalfBytes
        THEN [buf |-> fill(b, off, Draw64(e)),
              words |-> Append(ws, <<"u64", Draw64(e)>>)]
        ELSE IF rest > 0
        THEN [buf |-> fill(b, off, Draw32(e)),
              words |-> Append(ws, <<"u32", Draw32(e)>>)]
        ELSE [buf |-> b, words |-> ws]

\* return len(p), nil
ReadCountChunks(b) == WordBytes * (Len(b) \div WordBytes)
ReadCount(b) == Len(b)

Filled(name, len, src, result) ==
    LET run == FillFrom(Blank(len), 0, src, <<>>, safe, bigEndian)
    IN  /\ op' = name
        /\ n' = len
        /\ buf' = run.buf
        /\ words' = run.words
        /\ draws' = Len(run.words)
        /\ ret' = IF result THEN <<ReadCount(run.buf), "nil">> ELSE <<>>
        /\ pc' = "done"

Fill ==
    /\ NoCall
    /\ \E len \in 0 .. MaxBufLen, src \in Sources : Filled("Fill", len, src, FALSE)
    /\ UNCHANGED <<safe, bigEndian, raw, s, i, js, reads, factor>>

\* (*reader).Read on the value Reader() returns
Read ==
    /\ NoCall
    /\ reads < MaxReads
    /\ reads' = reads + 1
    /\ \E len \in 0 .. MaxBufLen, src \in Sources : Filled("Read", len, src, TRUE)
    /\ UNCHANGED <<safe, bigEndian, raw, s, i, js, factor>>

\* the default or the safe build, for a target of either byte order
InitFill ==
    /\ safe \in BOOLEAN
    /\ bigEndian \in BOOLEAN
    /\ Idle

NextFill ==
    \/ Fill
    \/ Read
    \/ Return

SpecFill == InitFill /\ [][NextFill]_vars

----------------------------------------------------------------------------
(* Properties of Fill and Reader, checked under SpecFill *)

Chunks(len) == len \div WordBytes
Remainder(len) == len % WordBytes

\* the number and the widths of the words Fill draws for a buffer of len bytes
WidthsFor(len) ==
    [k \in 1 .. Chunks(len) |-> "u64"]
        \o (IF Remainder(len) > HalfBytes THEN <<"u64">>
            ELSE IF Remainder(len) > 0 THEN <<"u32">>
            ELSE <<>>)

\* every byte written, the length kept, and the draws those of WidthsFor
FilledWhole ==
    /\ Len(buf) = n
    /\ \A k \in 1 .. n : buf[k] \in 0 .. 2^ByteBits - 1
    /\ [k \in 1 .. Len(words) |-> words[k][1]] = WidthsFor(n)
    /\ draws = Len(words)

\* byte j of chunk c is byte j of the c-th word, low-order byte first
ChunksLittleEndian ==
    \A c \in 1 .. Chunks(n) : \A j \in 0 .. WordBytes - 1 :
        buf[(c - 1) * WordBytes + j + 1] = (words[c][2] \div 2^(j * ByteBits)) % 2^ByteBits

\* byte j of chunk c is byte j of the c-th word, high-order byte first
ChunksBigEndian ==
    \A c \in 1 .. Chunks(n) : \A j \in 0 .. WordBytes - 1 :
        buf[(c - 1) * WordBytes + j + 1]
            = (words[c][2] \div 2^((WordBytes - 1 - j) * ByteBits)) % 2^ByteBits

\* remainder byte i is the i-th low-order byte of the last word drawn
TailLowOrder ==
    \A j \in 0 .. Remainder(n) - 1 :
        buf[Chunks(n) * WordBytes + j + 1]
            = (words[Len(words)][2] \div 2^(j * ByteBits)) % 2^ByteBits

\* C6 as stated: for every length 0..20 and every words drawn, Fill keeps the
\* length, writes every byte, draws floor(L/8) 64-bit words plus one 64-bit
\* word for a remainder of 5-7, one 32-bit word for a remainder of 1-4 and
\* nothing for 0, writes each chunk in little-endian order under either build,
\* and writes the remainder from the low-order bytes of the last word.
C6_Original ==
    (op = "Fill" /\ pc = "done") =>
        /\ FilledWhole
        /\ ChunksLittleEndian
        /\ TailLowOrder

\* What Fill does on every build: the chunks are in little-endian order under
\* the safe build and on little-endian targets, and in big-endian order under
\* the default build for a big-endian target.
FillNativeOrder ==
    (op = "Fill" /\ pc = "done") =>
        /\ FilledWhole
        /\ IF bigEndian /\ ~safe THEN ChunksBigEndian ELSE ChunksLittleEndian
        /\ TailLowOrder

\* the entropy that makes Fill draw the words it drew
SourceOf(ws) ==
    [k \in 1 .. MaxFillDraws |->
        IF k > Len(ws) THEN 0
        ELSE IF ws[k][1] = "u32" THEN ws[k][2] * 2^Bits32
        ELSE ws[k][2]]

\* C7: the stream never ends and never errors. After any number of Read
\* calls, a Read on a buffer of any length (0 included) leaves the buffer as
\* Fill leaves it when it draws the same words, and returns the length of the
\* buffer and a nil error.
C7_ReadNeverEnds ==
    (op = "Read" /\ pc = "done") =>
        /\ ret = <<n, "nil">>
        /\ Len(buf) = n
        /\ \A k \in 1 .. n : buf[k] # Unwritten
        /\ LET run == FillFrom(Blank(n), 0, SourceOf(words), <<>>, safe, bigEndian)
           IN  buf = run.buf /\ words = run.words

\* C7 witness: the last Read the model allows, after earlier ones, on a
\* buffer with whole chunks and a remainder.
C7_Witness ==
    /\ op = "Read"
    /\ pc = "done"
    /\ reads = MaxReads
    /\ reads > 1
    /\ n = 2 * WordBytes + 3
    /\ ret = <<n, "nil">>

----------------------------------------------------------------------------
(* Float32, Float64 and Jitter, fastrand.go:24-40 and 122-137 *)

\* Bits of the significand of float32 and float64 at the scale of the words:
\* a float32 keeps 24 of 32 bits, a float64 53 of 64.
Prec32 == Bits32 - (8 * Bits32 + 31) \div 32
Prec64 == Bits64 - (11 * Bits64 + 63) \div 64

\* mask = 1<<24 - 1 and mask = 1<<53 - 1: as many bits as the significand has
mask32Wide == 2^(Prec32 + 1) - 1
mask32 == 2^Prec32 - 1
mask64 == 2^Prec64 - 1

\* 1 / mult for mult = 0x1.0p-24 and mult = 0x1.0p-53
div32 == 2^Prec32
div64 == 2^Prec64

RECURSIVE BitLen(_)
BitLen(x) == IF x = 0 THEN 0 ELSE 1 + BitLen(x \div 2)

\* the float of precision p nearest to the non-negative integer x (ties to
\* even): float32(x) and float64(x)
RoundTo(x, p) ==
    IF BitLen(x) <= p THEN x
    ELSE LET e == BitLen(x) - p
             q == x \div 2^e
             rem == x % 2^e
             half == 2^(e - 1)
         IN  IF rem > half \/ (rem = half /\ q % 2 = 1)
             THEN (q + 1) * 2^e
             ELSE q * 2^e

\* float64(v) for a signed integer v
ToFloat64(v) == IF v < 0 THEN 0 - RoundTo(0 - v, Prec64) ELSE RoundTo(v, Prec64)

\* float32(u32()&mask) * mult, as the fraction <<numerator, denominator>>
Float32Of(w) == <<RoundTo(And(w, mask32), Prec32), div32>>

\* float64(u64()&mask) * mult, as the fraction <<numerator, denominator>>
Float64Of(w) == <<RoundTo(And(w, mask64), Prec64), div64>>

Float32 ==
    /\ NoCall
    /\ \E w \in u32 :
          /\ raw' = <<w>>
          /\ ret' = Float32Of(w)
    /\ op' = "Float32"
    /\ draws' = 1
    /\ pc' = "done"
    /\ UNCHANGED <<safe, bigEndian, n, s, i, js, buf, words, reads, factor>>

Float64 ==
    /\ NoCall
    /\ \E w \in u64 :
          /\ raw' = <<w>>
          /\ ret' = Float64Of(w)
    /\ op' = "Float64"
    /\ draws' = 1
    /\ pc' = "done"
    /\ UNCHANGED <<safe, bigEndian, n, s, i, js, buf, words, reads, factor>>

\* float64(v) * (1 + factor*(2*r - 1)) for r = rr[1] / rr[2] and
\* factor = f[1] / f[2], as the fraction <<numerator, denominator>>
Jittered(v, f, rr) ==
    <<ToFloat64(v) * (f[2] * rr[2] + f[1] * (2 * rr[1] - rr[2])), f[2] * rr[2]>>

\* the integer part of the fraction x (x[2] > 0), towards zero
Trunc(x) ==
    IF x[1] < 0 THEN 0 - ((0 - x[1]) \div x[2]) ELSE x[1] \div x[2]

\* T(x) for T = int64: the integer part when int64 holds it; otherwise the
\* conversion yields a value that depends on the implementation (the least
\* int64 on x86, the nearest end of the range on arm64)
ToInt64(x) ==
    IF Trunc(x) >= minInt64 /\ Trunc(x) <= maxInt64 THEN {Trunc(x)}
    ELSE {minInt64, maxInt64}

\* the values and factors Jitter is called with
JitterValues ==
    {0, 1, 3, 5, 100, 2^Prec64 + 1, maxInt64, 0 - 5, 0 - 100, minInt64}
Factors == {<<0, 1>>, <<1, 10>>, <<1, 2>>, <<1, 1>>}

\* Jitter[int64]
Jitter ==
    /\ NoCall
    /\ \E v \in JitterValues, f \in Factors, w \in u64 :
          /\ n' = v
          /\ factor' = f
          /\ raw' = <<w>>
          /\ \E res \in ToInt64(Jittered(v, f, Float64Of(w))) : ret' = <<res>>
    /\ op' = "Jitter"
    /\ draws' = 1
    /\ pc' = "done"
    /\ UNCHANGED <<safe, bigEndian, s, i, js, buf, words, reads>>

InitReal ==
    /\ safe = FALSE
    /\ bigEndian = FALSE
    /\ Idle

NextReal ==
    \/ Float32
    \/ Float64
    \/ Jitter
    \/ Return

SpecReal == InitReal /\ [][NextReal]_vars

----------------------------------------------------------------------------
(* Properties of the float generators and Jitter, checked under SpecReal *)

\* C8: Float32 and Float64 return k * 2^-N for k the low N bits of the one
\* word drawn (N the bits of the significand): 0 <= k < 2^N, so the result is
\* in [0, 1) and never 1, and every k comes from 2^(w-N) words.
C8_UnitInterval ==
    /\ (op = "Float32" /\ pc = "done") =>
          /\ draws = 1
          /\ ret = <<raw[1] % 2^Prec32, 2^Prec32>>
          /\ ret[1] >= 0
          /\ ret[1] < ret[2]
          /\ Cardinality({w \in u32 : Float32Of(w) = ret}) = 2^(Bits32 - Prec32)
    /\ (op = "Float64" /\ pc = "done") =>
          /\ draws = 1
          /\ ret = <<raw[1] % 2^Prec64, 2^Prec64>>
          /\ ret[1] >= 0
          /\ ret[1] < ret[2]
          /\ Cardinality({w \in u64 : Float64Of(w) = ret}) = 2^(Bits64 - Prec64)

\* C8 witness: Float32 returned the largest float below 1 from a word with
\* bits above the mask.
C8_Witness ==
    /\ op = "Float32"
    /\ pc = "done"
    /\ raw = <<maxUint32>>
    /\ ret = <<2^Prec32 - 1, 2^Prec32>>

\* C9 as stated: for v of an integer type and a factor in [0, 1], Jitter
\* returns a value between v - factor*v and v + factor*v; for v = 100 and
\* factor = 0.1 it lies in [90, 110]; for factor = 0 it equals v.
C9_Original ==
    (op = "Jitter" /\ pc = "done") =>
        LET a == n * (factor[2] - factor[1])
            b == n * (factor[2] + factor[1])
        IN  /\ ret[1] * factor[2] >= (IF a <= b THEN a ELSE b)
            /\ ret[1] * factor[2] <= (IF a <= b THEN b ELSE a)
            /\ (n = 100 /\ factor = <<1, 10>>) => ret[1] \in 90 .. 110
            /\ factor[1] = 0 => ret[1] = n

----------------------------------------------------------------------------
(* Properties of bounded sampling, checked under SpecSample *)

Signed == {"Int31n", "Int63n"}
Unsigned == {"Uint32n", "Uint64n"}
Wide == {"Int63n", "Uint64n"}

\* the words the sampler named may draw, their width, and the largest value
\* it compares with max
WordsOf(name) == IF name \in Wide THEN u64 ELSE u32
BitsOf(name) == IF name \in Wide THEN Bits64 ELSE Bits32
MaxvalOf(name) ==
    CASE name = "Int31n" -> maxInt32
      [] name = "Int63n" -> maxInt64
      [] name = "Uint32n" -> maxUint32
      [] name = "Uint64n" -> maxUint64

\* n is a power of two, arithmetically
PowerOfTwo(x) == \E k \in 0 .. Bits64 : x = 2^k

Returned == pc = "done" /\ op \in Signed \cup Unsigned

\* C1: a bounded sampler called with n > 0 returns exactly one value v with
\* 0 <= v < n, whatever words were drawn, on the masking path and on the
\* rejection path.
C1_InRange ==
    (Returned /\ n > 0) =>
        /\ Len(ret) = 1
        /\ ret[1] >= 0
        /\ ret[1] < n

\* C1 witness: Int63n returned the largest value of a bound that is no power
\* of two, after one rejected draw.
C1_Witness ==
    /\ Returned
    /\ op = "Int63n"
    /\ ~PowerOfTwo(n)
    /\ draws = 2
    /\ ret = <<n - 1>>

\* the number of words of the source the sampler maps to outcome r
Preimages(name, nn, r) ==
    LET pow2 == IsPow2(nn, BitsOf(name))
        max == RejMax(MaxvalOf(name), nn)
    IN  CASE name = "Int31n" ->
               Cardinality({w \in u32 : Pass(Int31(w), nn, pow2, max, Bits32) = <<r>>})
          [] name = "Int63n" ->
               Cardinality({w \in u64 : Pass(Int63(w), nn, pow2, max, Bits64) = <<r>>})
          [] name = "Uint32n" ->
               Cardinality({w \in u32 : Pass(w, nn, pow2, max, Bits32) = <<r>>})
          [] name = "Uint64n" ->
               Cardinality({w \in u64 : Pass(w, nn, pow2, max, Bits64) = <<r>>})

\* the number of words behind one value compared with max: 2 for the signed
\* samplers (the bit shifted out), 1 for the unsigned ones
WordsPerDraw(name) == Cardinality(WordsOf(name)) \div (MaxvalOf(name) + 1)

\* C2: zero modulo bias. For n > 0 no power of two, max = MAXVAL - MAXVAL % n
\* is the largest multiple of n not exceeding MAXVAL + 1, and the outcome
\* returned is the image of exactly max / n accepted draws; for n a power of
\* two it is the image of exactly (MAXVAL + 1) / n draws. So every outcome of
\* [0, n) has the same number of words behind it.
C2_NoModuloBias ==
    (Returned /\ n > 0) =>
        LET maxval == MaxvalOf(op)
            max == maxval - (maxval % n)
            share == IF PowerOfTwo(n) THEN (maxval + 1) \div n ELSE max \div n
        IN  /\ ~PowerOfTwo(n) =>
                   /\ RejMax(maxval, n) = max
                   /\ max % n = 0
                   /\ max <= maxval + 1
                   /\ max + n > maxval + 1
            /\ share > 0
            /\ Preimages(op, n, ret[1]) = WordsPerDraw(op) * share

\* C2 witness: a signed sampler returned an outcome for a bound that does
\* not divide the size of the range.
C2_Witness ==
    /\ Returned
    /\ op = "Int31n"
    /\ ~PowerOfTwo(n)
    /\ n > 2
    /\ draws = 1
    /\ ret = <<n - 1>>
    /\ raw = <<2 * (n - 1)>>
    /\ (maxInt32 + 1) % n # 0

\* C3: Int31n and Int63n called with n <= 0 panic: no value is returned and
\* no word is drawn.
C3_PanicBeforeDraw ==
    (op \in Signed /\ n <= 0) =>
        /\ pc = "panic"
        /\ ret = <<>>
        /\ raw = <<>>
        /\ draws = 0

\* C3 witness: Int63n was called with the least int64.
C3_Witness ==
    /\ op = "Int63n"
    /\ n = minInt64
    /\ pc = "panic"

\* C4 as stated: for n a power of two every bounded sampler draws one word
\* and returns raw & (n-1), raw being the word drawn.
C4_Original ==
    (Returned /\ PowerOfTwo(n)) =>
        /\ draws = 1
        /\ ret = <<And(raw[1], n - 1)>>

\* C4 amended: for n a power of two every bounded sampler draws one word raw;
\* the unsigned samplers return raw & (n-1), the signed ones return
\* (raw >> 1) & (n-1).
C4_MaskOfDraw ==
    (Returned /\ PowerOfTwo(n)) =>
        /\ draws = 1
        /\ Len(raw) = 1
        /\ op \in Unsigned => ret = <<And(raw[1], n - 1)>>
        /\ op \in Signed => ret = <<And(raw[1] \div 2, n - 1)>>

\* C4 witness: Int63n, n a power of two, and the value returned is not
\* raw & (n-1).
C4_Witness ==
    /\ Returned
    /\ op = "Int63n"
    /\ PowerOfTwo(n)
    /\ n > 1
    /\ ret # <<And(raw[1], n - 1)>>

\* C10: an unsigned sampler called with n = 0 draws exactly one word and
\* returns it unchanged; it never divides by zero.
C10_ZeroBound ==
    (op \in Unsigned /\ n = 0) =>
        /\ pc = "done"
        /\ draws = 1
        /\ ret = raw

\* C10 witness: Uint64n(0) returned the largest uint64.
C10_Witness ==
    /\ op = "Uint64n"
    /\ n = 0
    /\ pc = "done"
    /\ ret = <<maxUint64>>

====
